---- MODULE Spec2Model ----
(***************************************************************************)
(* State-machine model of hello.py: the JWT credential guard, the auth     *)
(* routes, and the /chat handler with its session and turn stores.         *)
(*                                                                         *)
(* Text is modelled as a sequence of chunks: the chunk " " is one          *)
(* whitespace character, every other chunk is a whitespace-free substring. *)
(* Time is the wall clock in ticks of one millisecond (0.001 s).           *)
(* Every pymongo call of /chat is one atomic step, so that concurrent      *)
(* requests interleave at the granularity of store operations.             *)
(***************************************************************************)
EXTENDS Integers, Sequences, FiniteSets, TLC

\* ------------------------------------------------------------ bounds
\* number of calls (to the document store, to the language model) that
\* raise in one behaviour
MaxFaults == 1
\* the wall clock advances at most to this tick
MaxClock == 1

\* The /chat requests of one behaviour.  Each has a worker of its own: the two
\* may run one after the other or be in flight together, in any interleaving
\* of their store calls.
Req == {1, 2}

\* ------------------------------------------------------------ text
SP == " "

RECURSIVE lstrip(_)
lstrip(s) == IF s # <<>> /\ Head(s) = SP THEN lstrip(Tail(s)) ELSE s

RECURSIVE rstrip(_)
rstrip(s) ==
  IF s # <<>> /\ s[Len(s)] = SP THEN rstrip(SubSeq(s, 1, Len(s) - 1)) ELSE s

\* str.strip()
strip(s) == rstrip(lstrip(s))

\* str.title() on the two role names
title(role) == IF role = "user" THEN "User"
               ELSE IF role = "assistant" THEN "Assistant" ELSE role

\* ------------------------------------------------------------ inputs
EmailA == "test@gatech.edu"
EmailB == "b@gatech.edu"
Emails == {EmailA, EmailB}

\* Python's None / a missing JSON key, for a string or for a text
None == "None"
NoneT == <<"None">>

\* JWT expiry instants of the tokens of the input space (clock ticks)
TokenExps == {1}

\* Tokens: three segments that parse, with the payload login issues
\* (email, exp) and a signature made with the server secret or with another
\* key; or a string that is no JWT at all ("garbage").
WellFormedTokens == [email : Emails, exp : TokenExps, sig : {"server", "other"}]
GarbageToken == [email |-> None, exp |-> 0, sig |-> "garbage"]
Tokens == WellFormedTokens \cup {GarbageToken}

\* Authorization header: absent, "Bearer <token>", or "<token>"
NoHeader == [present |-> FALSE, bearer |-> FALSE, tok |-> GarbageToken]
Headers == {NoHeader} \cup [present : {TRUE}, bearer : BOOLEAN, tok : Tokens]

\* connection metadata: request.remote_addr, request.user_agent.string
Origins == { [remote_addr |-> <<"10.0.0.1">>, user_agent |-> <<"curl">>],
             [remote_addr |-> NoneT,          user_agent |-> <<"curl">>] }

\* JSON bodies of POST /chat.  kind "absent": no parsable JSON body was
\* sent; "null": the JSON value null; "object": a JSON object, a key that
\* is not in it having the value NoneT.
MessageInputs == {NoneT, <<>>, <<SP, SP>>, <<SP, "hi", SP>>}
SessionInputs == {NoneT, <<SP>>, <<"demo-session", SP>>}
NoObject == [message |-> NoneT, session_id |-> NoneT]
Bodies == [kind : {"absent", "null"}, data : {NoObject}] \cup
          [kind : {"object"}, data : [message : MessageInputs,
                                      session_id : {NoneT}]] \cup
          [kind : {"object"}, data : [message : {<<SP, "hi", SP>>},
                                      session_id : SessionInputs]]
\* texts the language model answers with
Answers == {<<"answer">>}

\* bodies of POST /auth/register and /auth/login (a missing key is None)
RegisterInputs == [email : Emails \cup {None},
                   password : {"password123", None},
                   name : {"Test User", None}]
LoginInputs == [email : Emails \cup {None},
                password : {"password123", "wrong", None}]

\* ------------------------------------------------------------ state
VARIABLES
  GEMINI_AVAILABLE,  \* module flag set while the Gemini key is configured
  users,             \* users_collection: set of principal documents
  sessions,          \* sessions_collection: documents in insertion order
  messages,          \* messages_collection: documents in insertion order
  clubs,             \* the clubs collection, read for grounding
  clock,             \* time.time() / datetime.utcnow(), in ticks
  req,               \* per request: position and locals of its handler
  resp,              \* per request: its HTTP response
  faults,            \* number of calls that raised so far
  last               \* the call made by the latest step, with its result

vars == <<GEMINI_AVAILABLE, users, sessions, messages, clubs, clock,
          req, resp, faults, last>>

store == <<users, sessions, messages, clubs>>

\* ------------------------------------------------------------ JWT
\* jwt.decode(token, SECRET_KEY, algorithms=['HS256']): the segments are
\* parsed, then the signature is verified, then exp is validated.
jwt_decode(tok, now) ==
  IF tok.sig = "garbage"
    THEN [ok |-> FALSE, err |-> "DecodeError", email |-> None]
  ELSE IF tok.sig # "server"
    THEN [ok |-> FALSE, err |-> "InvalidSignatureError", email |-> None]
  ELSE IF tok.exp <= now
    THEN [ok |-> FALSE, err |-> "ExpiredSignatureError", email |-> None]
  ELSE [ok |-> TRUE, err |-> "", email |-> tok.email]

\* hashlib.sha256(raw.encode()).hexdigest()[:32], idealised as injective
sha256_32(raw) == <<"sha256[:32]">> \o raw

\* value or '' (None is falsy)
or_empty(t) == IF t = NoneT THEN <<>> ELSE t

get_user_id(h, o, now) ==
  LET data == jwt_decode(h.tok, now)
      raw  == or_empty(o.remote_addr) \o or_empty(o.user_agent)
  IN  IF h.present /\ h.bearer /\ data.ok
        THEN <<"email:", data.email>>
        ELSE <<"anon:">> \o sha256_32(raw)

\* ------------------------------------------------------------ guard
NoUser == [email |-> None, name |-> None]

\* users_collection.find_one({'email': e}, {'_id': 0, 'password': 0})
find_user(us, e) ==
  IF \E u \in us : u.email = e
    THEN LET u == CHOOSE u \in us : u.email = e
         IN  [email |-> u.email, name |-> u.name]
    ELSE NoUser

\* The guard without its "except jwt.ExpiredSignatureError" clause: the
\* exception reaches Flask, which answers 500.
token_required_expiry_uncaught(h, now, us) ==
  LET data == jwt_decode(h.tok, now)
      current_user == find_user(us, data.email)
  IN  IF ~h.present
        THEN [handler |-> FALSE, status |-> 401, error |-> "Token is missing",
              current_user |-> NoUser]
      ELSE IF data.err = "ExpiredSignatureError"
        THEN [handler |-> FALSE, status |-> 500,
              error |-> "Internal Server Error", current_user |-> NoUser]
      ELSE IF ~data.ok
        THEN [handler |-> FALSE, status |-> 401,
              error |-> "Invalid token", current_user |-> NoUser]
      ELSE IF current_user = NoUser
        THEN [handler |-> FALSE, status |-> 401,
              error |-> "User not found", current_user |-> NoUser]
      ELSE [handler |-> TRUE, status |-> 0, error |-> "",
            current_user |-> current_user]

\* The decorator: status 0 with handler = TRUE stands for "f is called".
token_required(h, now, us) ==
  IF ~h.present
    THEN [handler |-> FALSE, status |-> 401, error |-> "Token is missing",
          current_user |-> NoUser]
  ELSE LET data == jwt_decode(h.tok, now)
           current_user == find_user(us, data.email)
       IN  IF data.err = "ExpiredSignatureError"
             THEN [handler |-> FALSE, status |-> 401,
                   error |-> "Token has expired", current_user |-> NoUser]
           ELSE IF ~data.ok
             THEN [handler |-> FALSE, status |-> 401,
                   error |-> "Invalid token", current_user |-> NoUser]
           ELSE IF current_user = NoUser
             THEN [handler |-> FALSE, status |-> 401,
                   error |-> "User not found", current_user |-> NoUser]
           ELSE [handler |-> TRUE, status |-> 0, error |-> "",
                 current_user |-> current_user]

\* GET /auth/me
get_current_user(h, now, us) ==
  LET g == token_required(h, now, us)
  IN  IF g.handler THEN [g EXCEPT !.status = 200] ELSE g

\* ------------------------------------------------------------ auth routes
\* Whether the module binds the name bcrypt.  The import block of hello.py
\* (lines 1-10) imports flask, pymongo, functools, pandas, os, dotenv,
\* google.generativeai, jwt, datetime, time, uuid and hashlib: evaluating
\* bcrypt raises NameError, which the routes' "except Exception" turns
\* into a 500 response.
bcrypt_bound == FALSE

\* bcrypt.hashpw(password, gensalt()) and bcrypt.checkpw(password, hashed)
hashpw(password) == [alg |-> "bcrypt", of |-> password]
checkpw(password, hashed) == hashed.of = password

\* timedelta(hours=24) in clock ticks
TokenLifetime == 86400000

\* POST /auth/register: the response status and the users collection after
register(d, us) ==
  IF d.email = None \/ d.password = None \/ d.name = None
    THEN [status |-> 400, error |-> "Email, password, and name are required",
          users |-> us]
  ELSE IF \E u \in us : u.email = d.email
    THEN [status |-> 400, error |-> "User already exists", users |-> us]
  ELSE IF ~bcrypt_bound
    THEN [status |-> 500, error |-> "NameError", users |-> us]
  ELSE [status |-> 201, error |-> "",
        users |-> us \cup {[email |-> d.email, name |-> d.name,
                            password |-> hashpw(d.password)]}]

NoToken == GarbageToken

\* POST /auth/login: the response status and the token issued
login(d, now, us) ==
  IF d.email = None \/ d.password = None
    THEN [status |-> 400, error |-> "Email and password are required",
          token |-> NoToken]
  ELSE IF ~\E u \in us : u.email = d.email
    THEN [status |-> 401, error |-> "Invalid credentials", token |-> NoToken]
  ELSE IF ~bcrypt_bound
    THEN [status |-> 500, error |-> "NameError", token |-> NoToken]
  ELSE LET user == CHOOSE u \in us : u.email = d.email
       IN  IF ~checkpw(d.password, user.password)
             THEN [status |-> 401, error |-> "Invalid credentials",
                   token |-> NoToken]
             ELSE [status |-> 200, error |-> "",
                   token |-> [email |-> d.email, exp |-> now + TokenLifetime,
                              sig |-> "server"]]

\* ------------------------------------------------------------ stores
DemoUser == <<"demo-user">>
DemoSession == <<"demo-session">>
DefaultSid == <<"default">>

\* number of turns of the history window (.limit(8))
HistoryLimit == 8
\* number of clubs rendered into the prompt (clubs[:20])
CatalogLimit == 20

\* indices of the documents of coll that match the query {user_id, session_id}
find(coll, uid, sid) ==
  {i \in 1..Len(coll) : coll[i].user_id = uid /\ coll[i].session_id = sid}

\* .sort("ts", -1).limit(n): every sequence of at most n indices of S in
\* descending ts order; documents of equal ts come in any order.
RECURSIVE sort_desc_limit(_, _, _)
sort_desc_limit(coll, S, n) ==
  IF S = {} \/ n = 0 THEN {<<>>}
  ELSE LET top == {i \in S : \A j \in S : coll[j].ts <= coll[i].ts}
       IN  UNION {{<<i>> \o rest : rest \in sort_desc_limit(coll, S \ {i}, n - 1)}
                  : i \in top}

reversed(s) == [i \in 1..Len(s) |-> s[Len(s) + 1 - i]]

\* the projection {"_id": 0, "role": 1, "text": 1}
project(coll, idx) ==
  [k \in 1..Len(idx) |-> [role |-> coll[idx[k]].role, text |-> coll[idx[k]].text]]

\* the history query without line 387: the result stays newest first
history_query_newest_first(coll, uid, sid) ==
  sort_desc_limit(coll, find(coll, uid, sid), HistoryLimit)

\* lines 383-387: the results the history query can have for (uid, sid),
\* each as the sequence of the indices of the documents it returns
history_query(coll, uid, sid) ==
  {reversed(w) : w \in sort_desc_limit(coll, find(coll, uid, sid), HistoryLimit)}

\* line 388: "\n".join(f"{m['role'].title()}: {m['text']}" for m in history)
render_history(history) ==
  [k \in 1..Len(history) |-> <<title(history[k].role)>> \o history[k].text]

\* line 391: the starter fallback that follows the rendering
starter_history_text(history_text) == <<>>

\* lines 374-375: the starter placeholders that follow the resolution
starter_user_id(user_id) == DemoUser
starter_session_id(session_id) == DemoSession

\* lines 404-410: the catalog block of the prompt
clubs_context(cl) ==
  IF cl # <<>>
    THEN [k \in 1..(IF Len(cl) < CatalogLimit THEN Len(cl) ELSE CatalogLimit) |->
            <<"Club:", cl[k].club_name, cl[k].description, "Majors:", cl[k].majors>>]
    ELSE << <<"No clubs are currently in the database.">> >>

\* lines 415-429: the model input
full_prompt(cl, history_text, user_message) ==
  [clubs_context |-> clubs_context(cl), history_text |-> history_text,
   user_message |-> user_message]

NoPrompt == [clubs_context |-> <<>>, history_text |-> <<>>, user_message |-> <<>>]

\* ------------------------------------------------------------ /chat
\* the second added to the assistant turn's timestamp (now + 0.001), in ticks
AssistantOffset == 1

\* position and locals of a worker's request; rid is the serial number of
\* the request, ident the value get_user_id returned (line 370), requested
\* the stripped session_id of the body
IdleReq ==
  [pc |-> "idle", rid |-> 0, ident |-> <<>>, requested |-> <<>>,
   user_id |-> <<>>, session_id |-> <<>>, user_message |-> <<>>,
   prompt |-> NoPrompt, bot_response |-> <<>>, now |-> 0]

NoResp == [status |-> 0, success |-> FALSE, response |-> <<>>,
           session_id |-> <<>>, error |-> "", at |-> ""]

\* a failure response; "at" records the step that produced it
Failure(status, error, at) ==
  [status |-> status, success |-> FALSE, response |-> <<>>,
   session_id |-> <<>>, error |-> error, at |-> at]

NoCall == [op |-> "step"]

\* the handler returns: its frame is gone; what identifies the request stays
returned(rq) ==
  [IdleReq EXCEPT !.pc = "done", !.rid = rq.rid, !.ident = rq.ident,
                  !.user_message = rq.user_message]

\* data.get(key, '') of a JSON object
dict_get(value) == IF value = NoneT THEN <<>> ELSE value

\* "if not data": None and the empty object are falsy
falsy(b) == b.kind # "object" \/ b.data = NoObject

\* Steps 0-1: the response of a request that is turned away, NoResp for one
\* that passes.  get_json_raises: request.get_json() raises (415/400) for a
\* request without a parsable JSON body, and the handler's except answers;
\* Flask before 2.1 returned None when the content type was not JSON.
chat_validate(gemini, b, get_json_raises) ==
  IF ~gemini
    THEN Failure(400, "Gemini API key not configured", "gemini")
  ELSE IF b.kind = "absent" /\ get_json_raises
    THEN Failure(500, "Unexpected error", "get_json")
  ELSE IF falsy(b)
    THEN Failure(400, "No JSON data provided", "validate")
  ELSE IF strip(dict_get(b.data.message)) = <<>>
    THEN Failure(400, "No message provided", "validate")
  ELSE NoResp

\* lines 371-375: session_id is bound, then the placeholders overwrite both
resolved(rq, session_id) ==
  [rq EXCEPT !.pc = "context",
             !.user_id = starter_user_id(rq.ident),
             !.session_id = starter_session_id(session_id)]

\* Request r arrives (requests are numbered in the order of arrival) and
\* its worker runs steps 0-2 up to the first store call, or answers at once
\* when steps 0-1 turn the request away.
StartChat(r) ==
  /\ req[r].pc = "idle"
  /\ \A q \in Req : q < r => req[q].pc # "idle"
  /\ \E h \in Headers, o \in Origins, b \in Bodies, get_json_raises \in BOOLEAN :
       /\ get_json_raises => b.kind = "absent"
       /\ LET out == chat_validate(GEMINI_AVAILABLE, b, get_json_raises)
              requested == strip(dict_get(b.data.session_id))
              rq == [IdleReq EXCEPT
                       !.rid = r,
                       !.user_message = strip(dict_get(b.data.message)),
                       !.ident = get_user_id(h, o, clock),
                       !.requested = requested]
          IN  IF out.status # 0
                THEN /\ req' = [req EXCEPT ![r] = [IdleReq EXCEPT !.pc = "done", !.rid = r]]
                     /\ resp' = [resp EXCEPT ![r] = out]
                     /\ last' = [op |-> "chat_rejected", r |-> r, body |-> b,
                                 messages_before |-> messages,
                                 sessions_before |-> sessions]
                ELSE /\ req' = [req EXCEPT ![r] =
                                  IF requested # <<>> THEN resolved(rq, requested)
                                  ELSE [rq EXCEPT !.pc = "sess_find"]]
                     /\ resp' = resp
                     /\ last' = [op |-> "get_user_id", r |-> r, header |-> h,
                                 origin |-> o, at |-> clock]
  /\ UNCHANGED <<GEMINI_AVAILABLE, store, clock, faults>>

\* get_or_create_default_session: find_one
SessFind(r) ==
  /\ req[r].pc = "sess_find"
  /\ req' = [req EXCEPT ![r] =
               IF find(sessions, req[r].ident, DefaultSid) # {}
                 THEN resolved(req[r], DefaultSid)
                 ELSE [req[r] EXCEPT !.pc = "sess_insert"]]
  /\ last' = NoCall
  /\ UNCHANGED <<GEMINI_AVAILABLE, store, clock, resp, faults>>

AllFields == {"user_id", "session_id", "title", "created_at", "updated_at"}

\* get_or_create_default_session: insert_one; time.time() is read twice
SessInsert(r) ==
  /\ req[r].pc = "sess_insert"
  /\ \E d \in {0, 1} :
       /\ clock + d <= MaxClock
       /\ sessions' = Append(sessions,
            [user_id |-> req[r].ident, session_id |-> DefaultSid,
             title |-> "Default chat", created_at |-> clock,
             updated_at |-> clock + d, fields |-> AllFields])
       /\ clock' = clock + d
  /\ req' = [req EXCEPT ![r] = resolved(req[r], DefaultSid)]
  /\ last' = NoCall
  /\ UNCHANGED <<GEMINI_AVAILABLE, users, messages, clubs, resp, faults>>

\* steps 3-6: the history query, the catalog query, the prompt
LoadContext(r) ==
  /\ req[r].pc = "context"
  /\ \E idx \in history_query(messages, req[r].user_id, req[r].session_id) :
       LET history == project(messages, idx)
           prompt == full_prompt(clubs,
                        starter_history_text(render_history(history)),
                        req[r].user_message)
       IN  /\ req' = [req EXCEPT ![r].pc = "model", ![r].prompt = prompt]
           /\ last' = [op |-> "compose", r |-> r, idx |-> idx,
                       history |-> history, prompt |-> prompt]
  /\ UNCHANGED <<GEMINI_AVAILABLE, store, clock, resp, faults>>

\* step 7: generate_content returns
InvokeModel(r) ==
  /\ req[r].pc = "model"
  /\ \E a \in Answers :
       req' = [req EXCEPT ![r].pc = "put_user", ![r].bot_response = a]
  /\ last' = NoCall
  /\ UNCHANGED <<GEMINI_AVAILABLE, store, clock, resp, faults>>

\* generate_content placed after the insert of the user turn: a failing
\* invocation leaves the user turn in the log
ModelFail_PersistsUser(r) ==
  /\ req[r].pc = "model"
  /\ faults < MaxFaults
  /\ faults' = faults + 1
  /\ messages' = Append(messages,
       [user_id |-> req[r].user_id, session_id |-> req[r].session_id,
        role |-> "user", text |-> req[r].user_message, ts |-> clock,
        req |-> req[r].rid])
  /\ req' = [req EXCEPT ![r] = returned(req[r])]
  /\ resp' = [resp EXCEPT ![r] = Failure(500, "Unexpected error", "model")]
  /\ last' = [op |-> "model_failed", r |-> r, messages_before |-> messages]
  /\ UNCHANGED <<GEMINI_AVAILABLE, users, sessions, clubs, clock>>

\* step 7: generate_content raises; the handler's except answers 500
ModelFail(r) ==
  /\ req[r].pc = "model"
  /\ faults < MaxFaults
  /\ faults' = faults + 1
  /\ req' = [req EXCEPT ![r] = returned(req[r])]
  /\ resp' = [resp EXCEPT ![r] = Failure(500, "Unexpected error", "model")]
  /\ last' = [op |-> "model_failed", r |-> r, messages_before |-> messages]
  /\ UNCHANGED <<GEMINI_AVAILABLE, store, clock>>

\* a turn document; "req" names the request that wrote it (not a field of
\* the stored document: it identifies the writer in the statements below)
turn(rq, role, text, ts) ==
  [user_id |-> rq.user_id, session_id |-> rq.session_id, role |-> role,
   text |-> text, ts |-> ts, req |-> rq.rid]

\* step 8: now = time.time(); the user turn is inserted
PutUser(r) ==
  /\ req[r].pc = "put_user"
  /\ messages' = Append(messages, turn(req[r], "user", req[r].user_message, clock))
  /\ req' = [req EXCEPT ![r].pc = "put_assistant", ![r].now = clock]
  /\ last' = NoCall
  /\ UNCHANGED <<GEMINI_AVAILABLE, users, sessions, clubs, clock, resp, faults>>

\* the assistant turn stamped with the exchange time itself (no offset)
PutAssistant_SameStamp(r) ==
  /\ req[r].pc = "put_assistant"
  /\ messages' = Append(messages,
       turn(req[r], "assistant", req[r].bot_response, req[r].now))
  /\ req' = [req EXCEPT ![r].pc = "touch"]
  /\ last' = NoCall
  /\ UNCHANGED <<GEMINI_AVAILABLE, users, sessions, clubs, clock, resp, faults>>

\* step 8: the assistant turn is inserted
PutAssistant(r) ==
  /\ req[r].pc = "put_assistant"
  /\ messages' = Append(messages,
       turn(req[r], "assistant", req[r].bot_response, req[r].now + AssistantOffset))
  /\ req' = [req EXCEPT ![r].pc = "touch"]
  /\ last' = NoCall
  /\ UNCHANGED <<GEMINI_AVAILABLE, users, sessions, clubs, clock, resp, faults>>

\* update_one({user_id, session_id}, {"$set": {"updated_at": now}}, upsert=True)
update_one_upsert(coll, uid, sid, now) ==
  LET hit == find(coll, uid, sid)
  IN  IF hit # {}
        THEN LET i == CHOOSE i \in hit : \A j \in hit : i <= j
             IN  [coll EXCEPT ![i].updated_at = now,
                              ![i].fields = @ \cup {"updated_at"}]
        ELSE Append(coll, [user_id |-> uid, session_id |-> sid, title |-> None,
                           created_at |-> 0, updated_at |-> now,
                           fields |-> {"user_id", "session_id", "updated_at"}])

\* steps 8-9: the session is touched and the success response is returned
TouchSession(r) ==
  /\ req[r].pc = "touch"
  /\ sessions' = update_one_upsert(sessions, req[r].user_id, req[r].session_id,
                                   req[r].now)
  /\ req' = [req EXCEPT ![r] = returned(req[r])]
  /\ resp' = [resp EXCEPT ![r] =
       [status |-> 200, success |-> TRUE, response |-> req[r].bot_response,
        session_id |-> req[r].session_id, error |-> "", at |-> ""]]
  /\ last' = [op |-> "chat_ok", r |-> r, requested |-> req[r].requested,
              now |-> req[r].now]
  /\ UNCHANGED <<GEMINI_AVAILABLE, users, messages, clubs, clock, faults>>

\* the steps of /chat that call the document store
StoreOps == {"sess_find", "sess_insert", "context",
             "put_user", "put_assistant", "touch"}

\* A pymongo call raises.  The catalog query has its own except, every other
\* call is caught by the handler's except; both answer 500.
StoreFail(r) ==
  /\ req[r].pc \in StoreOps
  /\ faults < MaxFaults
  /\ faults' = faults + 1
  /\ \E catalog \in BOOLEAN :
       /\ catalog => req[r].pc = "context"
       /\ resp' = [resp EXCEPT ![r] =
            Failure(500, IF catalog THEN "Error fetching clubs from database"
                                    ELSE "Unexpected error", req[r].pc)]
  /\ req' = [req EXCEPT ![r] = returned(req[r])]
  /\ last' = NoCall
  /\ UNCHANGED <<GEMINI_AVAILABLE, store, clock>>

\* ------------------------------------------------------------ other steps
\* the wall clock advances
Tick ==
  /\ clock < MaxClock
  /\ clock' = clock + 1
  /\ last' = NoCall
  /\ UNCHANGED <<GEMINI_AVAILABLE, store, req, resp, faults>>

\* POST /auth/register
Register ==
  \E d \in RegisterInputs :
    LET out == register(d, users)
    IN  /\ users' = out.users
        /\ last' = [op |-> "register", body |-> d, status |-> out.status,
                    error |-> out.error, before |-> users]
        /\ UNCHANGED <<GEMINI_AVAILABLE, sessions, messages, clubs, clock,
                       req, resp, faults>>

\* POST /auth/login
Login ==
  \E d \in LoginInputs :
    LET out == login(d, clock, users)
    IN  /\ last' = [op |-> "login", body |-> d, status |-> out.status,
                    error |-> out.error, token |-> out.token]
        /\ UNCHANGED <<GEMINI_AVAILABLE, store, clock, req, resp, faults>>

\* GET /auth/me, the route behind the guard
Me ==
  \E h \in Headers :
    LET out == get_current_user(h, clock, users)
    IN  /\ last' = [op |-> "me", header |-> h, at |-> clock,
                    status |-> out.status, handler |-> out.handler,
                    error |-> out.error, user |-> out.current_user]
        /\ UNCHANGED <<GEMINI_AVAILABLE, store, clock, req, resp, faults>>

\* ------------------------------------------------------------ initial state
\* The document store is durable and outlives the process: at start-up the
\* collections hold what earlier runs left.  UserA is a principal stored by
\* an earlier deployment; PriorLog holds four exchanges written by /chat and
\* one turn of another (identity, session) key.
UserA == [email |-> EmailA, name |-> "Test User",
          password |-> hashpw("password123")]

prior_turn(uid, sid, role, text, ts) ==
  [user_id |-> uid, session_id |-> sid, role |-> role, text |-> text,
   ts |-> ts, req |-> 0]

PriorLog ==
  << prior_turn(DemoUser, DemoSession, "user", <<"q1">>, -8),
     prior_turn(DemoUser, DemoSession, "assistant", <<"a1">>, -8 + AssistantOffset),
     prior_turn(DemoUser, DemoSession, "user", <<"q2">>, -6),
     prior_turn(DemoUser, DemoSession, "assistant", <<"a2">>, -6 + AssistantOffset),
     prior_turn(<<"email:", EmailA>>, DefaultSid, "user", <<"other">>, -5),
     prior_turn(DemoUser, DemoSession, "user", <<"q3">>, -4),
     prior_turn(DemoUser, DemoSession, "assistant", <<"a3">>, -4 + AssistantOffset),
     prior_turn(DemoUser, DemoSession, "user", <<"q4">>, -2),
     prior_turn(DemoUser, DemoSession, "assistant", <<"a4">>, -2 + AssistantOffset) >>

AISociety == [club_name |-> "AI Society", description |-> "AI projects",
              majors |-> "CS"]

Init ==
  /\ GEMINI_AVAILABLE \in BOOLEAN
  /\ users = {UserA}
  /\ sessions = <<>>
  /\ messages \in {<<>>, PriorLog}
  /\ clubs = <<AISociety>>
  /\ clock = 0
  /\ req = [r \in Req |-> IdleReq]
  /\ resp = [r \in Req |-> NoResp]
  /\ faults = 0
  /\ last = NoCall

\* The chat pipeline.  It neither reads nor writes the users collection, and
\* the auth routes touch nothing else: the two are checked apart.
Next ==
  \/ \E r \in Req : StartChat(r)
  \/ \E r \in Req : SessFind(r)
  \/ \E r \in Req : SessInsert(r)
  \/ \E r \in Req : LoadContext(r)
  \/ \E r \in Req : InvokeModel(r)
  \/ \E r \in Req : ModelFail(r)
  \/ \E r \in Req : PutUser(r)
  \/ \E r \in Req : PutAssistant(r)
  \/ \E r \in Req : TouchSession(r)
  \/ \E r \in Req : StoreFail(r)
  \/ Tick

Spec == Init /\ [][Next]_vars

\* The auth routes and the guarded route.
AuthNext ==
  \/ Tick
  \/ Register
  \/ Login
  \/ Me

AuthSpec == Init /\ [][AuthNext]_vars

\* ------------------------------------------------------------ claims
TurnsOf(r) == {i \in 1..Len(messages) : messages[i].req = r}

Done(r) == req[r].pc = "done"

\* C1: a /chat request whose model invocation fails (model not configured,
\* or generate_content raises) ends with a failure response, and neither of
\* its turns is ever in the turn log; the failing step leaves the log as
\* it was.
C1_ModelFailureWritesNoTurn ==
  /\ \A r \in Req :
       (Done(r) /\ resp[r].at \in {"gemini", "model"}) =>
         /\ ~resp[r].success
         /\ resp[r].status \in {400, 500}
         /\ TurnsOf(r) = {}
  /\ (last.op = "model_failed" \/
      (last.op = "chat_rejected" /\ resp[last.r].at = "gemini")) =>
       messages = last.messages_before

\* generate_content raised for a request while the other request's turns
\* are in the log
C1_Witness ==
  \E r \in Req :
    /\ Done(r) /\ resp[r].at = "model"
    /\ last.op = "model_failed" /\ last.r = r
    /\ \E q \in Req \ {r} : TurnsOf(q) # {}

\* C2 (as claimed): once the model has answered, a failing store write
\* (user turn, assistant turn, session touch) does not show in the response:
\* the request answers success with the generated text.
C2_WriteFailureStillSucceeds ==
  \A r \in Req :
    (Done(r) /\ resp[r].at \in {"put_user", "put_assistant", "touch"}) =>
      /\ resp[r].success
      /\ resp[r].status = 200
      /\ resp[r].response \in Answers

\* C3 (as claimed): when a request composes its prompt after a successful
\* request of the same caller whose returned session_id it passes, the
\* transcript block holds that request's user turn followed by its
\* assistant turn.
C3_MemoryCarriesOver ==
  last.op = "compose" =>
    \A q \in Req \ {last.r} :
      ( /\ Done(q) /\ resp[q].success
        /\ req[q].ident = req[last.r].ident
        /\ resp[q].session_id = req[last.r].requested ) =>
      LET text == last.prompt.history_text
      IN  \E k \in 1..(Len(text) - 1) :
            /\ text[k] = <<"User">> \o req[q].user_message
            /\ text[k + 1] = <<"Assistant">> \o resp[q].response

\* the session id the claim resolves for a request
ClaimedSid(requested) == IF requested # <<>> THEN requested ELSE DefaultSid

\* C4 (as claimed): a successful request's two turns, the session row it
\* touches and the session_id it returns carry the identity resolved for the
\* caller and the session id resolved for the request; and a history window
\* holds no turn written by a request of another identity.
C4_KeyIsResolvedKey ==
  /\ last.op = "chat_ok" =>
       LET r == last.r
           sid == ClaimedSid(last.requested)
       IN  /\ resp[r].session_id = sid
           /\ \A i \in TurnsOf(r) :
                messages[i].user_id = req[r].ident /\ messages[i].session_id = sid
           /\ \E i \in 1..Len(sessions) :
                /\ sessions[i].user_id = req[r].ident
                /\ sessions[i].session_id = sid
                /\ sessions[i].updated_at = last.now
  /\ last.op = "compose" =>
       \A k \in 1..Len(last.idx) :
         LET w == messages[last.idx[k]].req
         IN  w \in Req => req[w].ident = req[last.r].ident

\* C5 (as claimed): the session store holds at most one row per
\* (identity, session-id), in every interleaving of concurrent requests.
C5_OneRowPerKey ==
  \A i, j \in 1..Len(sessions) :
    (sessions[i].user_id = sessions[j].user_id /\
     sessions[i].session_id = sessions[j].session_id) => i = j

\* the Credential Verifier's acceptance, from the token itself
Accepted(tok, now) ==
  /\ tok.sig = "server"
  /\ tok.exp > now
  /\ \E u \in users : u.email = tok.email

\* C6: the guarded route runs its handler exactly when a token is sent whose
\* signature is valid, which is not expired and whose email has a principal,
\* then answering 200 with that principal; every rejection is a 401, and the
\* handler is not run.
C6_GuardRejectsWith401 ==
  last.op = "me" =>
    LET ok == last.header.present /\ Accepted(last.header.tok, last.at)
    IN  /\ last.handler <=> ok
        /\ last.handler => (last.status = 200 /\
                            last.user.email = last.header.tok.email)
        /\ ~last.handler => (last.status = 401 /\ last.user = NoUser)

\* an expired token of an existing principal was turned away
C6_Witness ==
  /\ last.op = "me"
  /\ last.header.present
  /\ last.header.tok.sig = "server"
  /\ last.header.tok.email = EmailA
  /\ last.header.tok.exp <= last.at
  /\ last.status = 401
  /\ ~last.handler

\* C7 (as claimed): the resolver returns "email:<e>" exactly when a bearer
\* credential is sent that the Credential Verifier accepts as principal e,
\* and the anonymous identity of the connection otherwise.
C7_ResolverFollowsVerifier ==
  last.op = "get_user_id" =>
    LET h == last.header
        ident == req[last.r].ident
    IN  IF h.present /\ h.bearer /\ Accepted(h.tok, last.at)
          THEN ident = <<"email:", h.tok.email>>
          ELSE ident = <<"anon:">> \o sha256_32(or_empty(last.origin.remote_addr)
                                                \o or_empty(last.origin.user_agent))

\* C8 (as claimed): registering a new email with password and name answers
\* 201 and stores one principal with that email; registering a registered
\* email answers 400 and changes nothing; a login with a principal's email
\* and password answers 200 with a token the guard accepts.
C8_RegisterThenLogin ==
  /\ (last.op = "register" /\ last.body.email # None /\
      last.body.password # None /\ last.body.name # None) =>
       IF \E u \in last.before : u.email = last.body.email
         THEN last.status = 400 /\ users = last.before
         ELSE /\ last.status = 201
              /\ Cardinality({u \in users : u.email = last.body.email}) = 1
  /\ (last.op = "login" /\ last.body.email # None /\ last.body.password # None /\
      \E u \in users : u.email = last.body.email /\
                       checkpw(last.body.password, u.password)) =>
       /\ last.status = 200
       /\ get_current_user([present |-> TRUE, bearer |-> TRUE, tok |-> last.token],
                           clock, users).status = 200

\* the body of a /chat request has no message: no JSON, or a message that
\* is missing, empty or only whitespace
NoMessage(b) == b.kind # "object" \/ strip(dict_get(b.data.message)) = <<>>

\* C9 (as claimed): a /chat request whose body is missing, or whose message
\* is missing, empty or whitespace, is answered 400, and creates no session
\* row, writes no turn and does not reach the model.
C9_NoMessageIs400 ==
  (last.op = "chat_rejected" /\ NoMessage(last.body)) =>
    /\ resp[last.r].status = 400
    /\ ~resp[last.r].success
    /\ Done(last.r)
    /\ messages = last.messages_before
    /\ sessions = last.sessions_before

\* C10: the history window of (identity, session-id) holds at most 8 turns,
\* all of that key; they are turns of largest timestamp of the key, in
\* ascending timestamp order, all of them when the key has at most 8; the
\* window is empty when the key has no turn.
C10_HistoryWindow ==
  last.op = "compose" =>
    LET idx == last.idx
        all == find(messages, req[last.r].user_id, req[last.r].session_id)
        got == {idx[k] : k \in 1..Len(idx)}
    IN  /\ Len(idx) <= 8
        /\ Len(last.history) = Len(idx)
        /\ got \subseteq all
        /\ Cardinality(got) = Len(idx)
        /\ Len(idx) = (IF Cardinality(all) < 8 THEN Cardinality(all) ELSE 8)
        /\ \A k \in 1..(Len(idx) - 1) :
             messages[idx[k]].ts <= messages[idx[k + 1]].ts
        /\ \A i \in all \ got : \A j \in got : messages[i].ts <= messages[j].ts
        /\ \A k \in 1..Len(idx) :
             /\ last.history[k].role = messages[idx[k]].role
             /\ last.history[k].text = messages[idx[k]].text
        /\ all = {} => last.history = <<>>

\* the key holds more than 8 turns and the window holds 8 of them
C10_Witness ==
  /\ last.op = "compose"
  /\ Len(last.history) = 8
  /\ Cardinality(find(messages, req[last.r].user_id, req[last.r].session_id)) > 8

\* the turns of role ro that request r has in the log
RoleTurns(r, ro) == {i \in TurnsOf(r) : messages[i].role = ro}

\* no request is in flight
Quiet == \A r \in Req : req[r].pc \in {"idle", "done"}

\* C11 (as claimed): a completed /chat request has written both of its
\* turns, the user turn before the assistant turn, or neither; so when no
\* request is in flight, every (identity, session-id) holds as many
\* assistant turns as user turns among the turns the requests wrote, also
\* when a store write fails.
C11_TurnsInPairs ==
  /\ \A r \in Req :
       Done(r) =>
         \/ TurnsOf(r) = {}
         \/ /\ Cardinality(RoleTurns(r, "user")) = 1
            /\ Cardinality(RoleTurns(r, "assistant")) = 1
            /\ \A i \in RoleTurns(r, "user") :
                 \A j \in RoleTurns(r, "assistant") : i < j
  /\ Quiet =>
       \A k \in 1..Len(messages) :
         LET written(ro) ==
               {i \in 1..Len(messages) :
                  /\ messages[i].req \in Req
                  /\ messages[i].user_id = messages[k].user_id
                  /\ messages[i].session_id = messages[k].session_id
                  /\ messages[i].role = ro}
         IN  Cardinality(written("user")) = Cardinality(written("assistant"))

\* C12: the assistant turn of an exchange has a timestamp strictly greater
\* than the user turn of that exchange; hence in every history window,
\* which lists turns in ascending timestamp order, the user turn of an
\* exchange stands before its assistant turn.
C12_AssistantAfterUser ==
  /\ \A r \in Req :
       \A i \in RoleTurns(r, "user") :
         \A j \in RoleTurns(r, "assistant") :
           messages[j].ts > messages[i].ts
  /\ last.op = "compose" =>
       \A a, b \in 1..Len(last.idx) :
         ( /\ messages[last.idx[a]].req \in Req
           /\ messages[last.idx[a]].req = messages[last.idx[b]].req
           /\ messages[last.idx[a]].role = "user"
           /\ messages[last.idx[b]].role = "assistant" ) => a < b

\* a window holds both turns of an exchange of the other request, whose
\* assistant turn was stored while the clock had advanced past its stamp
C12_Witness ==
  /\ last.op = "compose"
  /\ \E a, b \in 1..Len(last.idx) :
       /\ messages[last.idx[a]].req \in Req \ {last.r}
       /\ messages[last.idx[a]].req = messages[last.idx[b]].req
       /\ messages[last.idx[a]].role = "user"
       /\ messages[last.idx[b]].role = "assistant"
       /\ messages[last.idx[b]].ts = clock
       /\ clock > 0

\* the exchange times (the "now" of step 8, kept as the user turn's ts) of
\* the successful requests that touched the key (uid, sid)
ExchangeTimes(uid, sid) ==
  {messages[i].ts : i \in {i \in 1..Len(messages) :
      /\ messages[i].req \in Req
      /\ resp[messages[i].req].success
      /\ messages[i].role = "user"
      /\ messages[i].user_id = uid
      /\ messages[i].session_id = sid}}

\* C13 (as claimed): once all requests have completed, the last-activity
\* timestamp of a session that successful requests touched is the largest
\* exchange time among them, in whatever order the touches reached the
\* store.
C13_TouchKeepsLatest ==
  (\A r \in Req : Done(r)) =>
    \A i \in 1..Len(sessions) :
      LET times == ExchangeTimes(sessions[i].user_id, sessions[i].session_id)
      IN  times # {} => /\ sessions[i].updated_at \in times
                        /\ \A t \in times : t <= sessions[i].updated_at

\* C14 (as claimed): every session row carries owner identity, session id,
\* title, creation timestamp and last-activity timestamp, with creation
\* timestamp <= last-activity timestamp, whether default-session creation
\* or a touch created it.
C14_SessionRowComplete ==
  \A i \in 1..Len(sessions) :
    /\ sessions[i].fields = AllFields
    /\ sessions[i].title # None
    /\ sessions[i].created_at <= sessions[i].updated_at

\* C15 (as claimed): whenever the guard accepts an Authorization header
\* value as the principal with email e, the resolver given the same value
\* at the same time returns "email:" e, also when the value is the bare
\* token without the "Bearer " prefix.
C15_GuardAndResolverAgree ==
  last.op = "get_user_id" =>
    LET g == token_required(last.header, last.at, users)
    IN  g.handler =>
          req[last.r].ident = <<"email:", g.current_user.email>>

====
